---- MODULE Spec2Model ----
(***************************************************************************)
(* A model of the twoskip reader (src/src/twoskip.rs): the header decoder  *)
(* read_header, the record decoder Db::record_at, the skip-list lookup     *)
(* Db::get, the sequential scan DbIter::next and Db::dump.                 *)
(*                                                                         *)
(* Machine integers.  A u16 is an integer.  A u32 is two and a u64 (usize  *)
(* on a 64-bit target) four 16-bit limbs, most significant first, because  *)
(* the model checker's integers are 32 bits wide.  Additions of usize      *)
(* values report their carry: a build with overflow checks panics on it,   *)
(* a build without them wraps.                                            *)
(*                                                                         *)
(* Memory.  The mapping holds Len(map) bytes.  The code reads through raw  *)
(* pointers, so a read past the end of the mapping is undefined: in the    *)
(* model it yields the zero fill of the mapping's last page for the first  *)
(* `slack` bytes and a fault (SIGSEGV/SIGBUS, the process dies) after.     *)
(***************************************************************************)
EXTENDS Integers, Sequences, FiniteSets, TLC

VARIABLES
    map,      \* Db.map: the bytes of the file, map[i+1] is the byte at offset i
    slack,    \* readable zero bytes after the mapping, before the first fault
    build,    \* "debug": arithmetic overflow panics; "release": it wraps
    layout,   \* ghost: the items the file was written from, in file order
    pc,       \* where the caller is: "closed", "open", "get", "iter", "dump",
              \* and "open_err", "get_ret", "iter_dead", "dump_ret" after a call
    header,   \* what read_header returned
    key,      \* get: the search key
    r,        \* get: the current record
    level,    \* get: the current level
    offset,   \* DbIter.offset, and dump's offset
    out,      \* what the caller has seen: the yielded records, the dumped lines
    ret,      \* what the last call returned
    past,     \* ghost: some read so far passed the end of the mapping
    at,       \* ghost: the offset of the last record_at, -1 before the first and
              \* for an offset of 2^31 or more
    lines     \* the lines get's loop has printed so far (line 240), modulo 2

vars == <<map, slack, build, layout, pc, header, key, r, level, offset, out, ret, past, at, lines>>

----------------------------------------------------------------------------
(* Program constants *)

MAX_LEVEL == 31
HEADER_SIZE == 64
HEADER_VERSION == 1
OFFSET_HEADER == 0
OFFSET_VERSION == 20
OFFSET_GENERATION == 24
OFFSET_NUM_RECORDS == 32
OFFSET_REPACK_SIZE == 40
OFFSET_CURRENT_SIZE == 48
OFFSET_CRC32 == 60
START_OFFSET == HEADER_SIZE

\* b"\xa1\x02\x8b\x0dtwoskip file\x00\x00\x00\x00"
HEADER_MAGIC ==
    <<161, 2, 139, 13, 116, 119, 111, 115, 107, 105, 112, 32, 102, 105, 108, 101,
      0, 0, 0, 0>>

\* b" BLANK\x07\xa0"
BLANK == <<32, 66, 76, 65, 78, 75, 7, 160>>

\* The tag bytes '=', '+', '-', '$'
TagDummy == 61
TagRecord == 43
TagDelete == 45
TagCommit == 36

----------------------------------------------------------------------------
(* Machine words *)

Limb == 256 * 256

\* u16::max_value(), u32::max_value() as limbs
U16Max == Limb - 1
U32Max == <<U16Max, U16Max>>

\* BigEndian::read_u16/u32/u64 of a byte slice: 16-bit limbs, most significant first
BigEndian(bs) ==
    [i \in 1..(Len(bs) \div 2) |-> bs[2 * i - 1] * 256 + bs[2 * i]] \o <<>>

\* `as usize` of a u16 (an integer) or a u32 (two limbs): zero extension
U16AsUsize(n) == <<0, 0, 0, n>>
U32AsUsize(w) == <<0, 0, w[1], w[2]>>

\* A usize the model's integers can hold (below 2^31), and its two conversions
IsSmall(u) == u[1] = 0 /\ u[2] = 0 /\ u[3] < Limb \div 2
ToInt(u) == u[3] * Limb + u[4]
Usize(n) == <<0, 0, n \div Limb, n % Limb>>

Zero64 == <<0, 0, 0, 0>>

RECURSIVE AddFrom(_, _, _, _)
AddFrom(a, b, i, c) ==
    IF i = 0 THEN <<c>>
    ELSE LET s == a[i] + b[i] + c
         IN  AddFrom(a, b, i - 1, s \div Limb) \o <<s % Limb>>

\* usize + usize: the wrapped sum v and the carry c out of 64 bits
Add64(a, b) ==
    LET Split(s) == [v |-> Tail(s), c |-> Head(s)] IN Split(AddFrom(a, b, 4, 0))

RECURSIVE SubFrom(_, _, _, _)
SubFrom(a, b, i, c) ==
    IF i = 0 THEN <<c>>
    ELSE LET d == a[i] - b[i] - c
         IN  IF d < 0 THEN SubFrom(a, b, i - 1, 1) \o <<d + Limb>>
                      ELSE SubFrom(a, b, i - 1, 0) \o <<d>>

\* usize - usize: the wrapped difference v and the borrow c
Sub64(a, b) ==
    LET Parts(s) == [v |-> Tail(s), c |-> Head(s)] IN Parts(SubFrom(a, b, 4, 0))

RECURSIVE LessFrom(_, _, _)
LessFrom(a, b, i) ==
    IF i > Len(a) THEN FALSE
    ELSE IF a[i] # b[i] THEN a[i] < b[i]
    ELSE LessFrom(a, b, i + 1)

\* a < b for two words of the same number of limbs
Less64(a, b) == LessFrom(a, b, 1)

RECURSIVE RemFrom(_, _, _, _)
RemFrom(a, to, i, acc) ==
    IF i > Len(a) THEN acc
    ELSE RemFrom(a, to, i + 1, (acc * Limb + a[i]) % to)

\* n % to for a usize n and a small divisor
Rem64(n, to) == RemFrom(n, to, 1, 0)

----------------------------------------------------------------------------------------------------------------------------------------
(* CRC-32/ISO-HDLC (crc::CRC_32_ISO_HDLC): reflected, polynomial 0x04C11DB7 *)
(* (0xEDB88320 reflected), initial value and final xor 0xFFFFFFFF.  The    *)
(* register is four bytes, most significant first; the byte table is       *)
(* computed from the polynomial, a register there being the set of its one *)
(* bits (bit 0 the least significant).                                     *)

BitsOf(n, w) == {i \in 0..(w - 1) : (n \div (2 ^ i)) % 2 = 1}

RECURSIVE ValueFrom(_, _, _)
ValueFrom(s, i, w) ==
    IF i = w THEN 0
    ELSE (IF i \in s THEN 2 ^ i ELSE 0) + ValueFrom(s, i + 1, w)

\* The integer whose one bits are s, all below w
ValueOf(s, w) == ValueFrom(s, 0, w)

Xor(a, b) == (a \ b) \cup (b \ a)

\* a xor b for two 4-bit numbers, as a table, and for two bytes
XorNibble ==
    [a \in 1..16 |->
        [b \in 1..16 |-> ValueOf(Xor(BitsOf(a - 1, 4), BitsOf(b - 1, 4)), 4)] \o <<>>]
    \o <<>>

XorByte(a, b) ==
    XorNibble[(a \div 16) + 1][(b \div 16) + 1] * 16 + XorNibble[(a % 16) + 1][(b % 16) + 1]

CrcPoly == {31, 30, 29, 27, 26, 24, 23, 21, 20, 19, 15, 9, 8, 5}

CrcShift(c) ==
    LET s == {i - 1 : i \in c \ {0}}
    IN  IF 0 \in c THEN Xor(s, CrcPoly) ELSE s

RECURSIVE CrcShiftN(_, _)
CrcShiftN(c, n) == IF n = 0 THEN c ELSE CrcShiftN(CrcShift(c), n - 1)

\* The byte table: entry b + 1 is the register after the eight shifts of b
CrcTable ==
    [b \in 1..256 |->
        LET c == CrcShiftN(BitsOf(b - 1, 8), 8)
        IN  <<ValueOf({i - 24 : i \in c \cap (24..31)}, 8),
              ValueOf({i - 16 : i \in c \cap (16..23)}, 8),
              ValueOf({i - 8 : i \in c \cap (8..15)}, 8),
              ValueOf(c \cap (0..7), 8)>>]
    \o <<>>

\* crc = table[(crc ^ b) & 0xFF] ^ (crc >> 8)
CrcUpdate(c, b) ==
    LET Shifted(t) == <<t[1], XorByte(t[2], c[1]), XorByte(t[3], c[2]), XorByte(t[4], c[3])>>
    IN  Shifted(CrcTable[XorByte(c[4], b) + 1])

RECURSIVE CrcFrom(_, _, _, _)
\* The register c after the bytes bs[lo..hi], by halves
CrcFrom(bs, lo, hi, c) ==
    IF lo > hi \/ c[1] < 0 THEN c
    ELSE IF lo = hi THEN CrcUpdate(c, bs[lo])
    ELSE LET mid == (lo + hi) \div 2
         IN  CrcFrom(bs, mid + 1, hi, CrcFrom(bs, lo, mid, c))

\* The final xor with 0xFFFFFFFF: the register c as a u32 of two limbs
CrcFinal(c) == <<(255 - c[1]) * 256 + (255 - c[2]), (255 - c[3]) * 256 + (255 - c[4])>>

\* A checksum of the first 8 bytes only
ChecksumOfPrefix(bs) ==
    CrcFinal(CrcFrom(bs, 1, IF Len(bs) < 8 THEN Len(bs) ELSE 8, <<255, 255, 255, 255>>))

\* CRC32.checksum(bytes): a u32, as two limbs
Checksum(bs) == CrcFinal(CrcFrom(bs, 1, Len(bs), <<255, 255, 255, 255>>))

----------------------------------------------------------------------------
(* round_up<T>(n, to), at T = usize: the wrapped result v, and c = 1 when  *)
(* n + to overflowed                                                       *)

round_up(n, to) ==
    LET Up(rem, s) ==
            IF rem = 0 THEN [v |-> n, c |-> 0]
            ELSE [v |-> Sub64(s.v, Usize(rem)).v, c |-> s.c]
    IN  Up(Rem64(n, to), Add64(n, Usize(to)))

----------------------------------------------------------------------------
(* Reads through base.add(i) *)

\* The read of n bytes at off stays inside the mapping
InMap(off, n) == off + n <= Len(map)

\* The read of n bytes at off does not fault
Readable(off, n) == off + n <= Len(map) + slack

Byte(i) == IF i < Len(map) THEN map[i + 1] ELSE 0

\* slice::from_raw_parts(base.add(off), n)
Slice(off, n) == [i \in 1..n |-> Byte(off + i - 1)] \o <<>>

----------------------------------------------------------------------------
(* What a call returns.  `past` says that a read of the call passed the    *)
(* end of the mapping.  A Panic and a Fault end the process.               *)

Ok(v, p) == [kind |-> "Ok", val |-> v, past |-> p]
Err(e, p) == [kind |-> "Err", val |-> e, past |-> p]
Panic(msg, p) == [kind |-> "Panic", val |-> msg, past |-> p]
Fault == [kind |-> "Fault", val |-> "SIGSEGV", past |-> TRUE]

\* impl From<u8> for RecordType: the type, or "panic" for any other byte
RecordTypeFrom(c) ==
    CASE c = TagDummy -> "Dummy"
      [] c = TagRecord -> "Record"
      [] c = TagDelete -> "Delete"
      [] c = TagCommit -> "Commit"
      [] OTHER -> "panic"

----------------------------------------------------------------------------
(* read_header(map) *)

\* read_header with the checksum checked before the version
read_header_checksum_first ==
    IF Len(map) < HEADER_SIZE THEN Err("InvalidFileSize", FALSE)
    ELSE IF Slice(OFFSET_HEADER, Len(HEADER_MAGIC)) # HEADER_MAGIC
         THEN Err("InvalidHeaderMagic", FALSE)
    ELSE IF BigEndian(Slice(OFFSET_CRC32, 4)) # Checksum(Slice(0, OFFSET_CRC32))
         THEN Err("ChecksumMismatch", FALSE)
    ELSE IF BigEndian(Slice(OFFSET_VERSION, 4)) # <<0, HEADER_VERSION>>
         THEN Err("VersionMismatch", FALSE)
    ELSE Ok([version      |-> HEADER_VERSION,
             flags        |-> 0,
             generation   |-> BigEndian(Slice(OFFSET_GENERATION, 8)),
             num_records  |-> BigEndian(Slice(OFFSET_NUM_RECORDS, 8)),
             repack_size  |-> BigEndian(Slice(OFFSET_REPACK_SIZE, 8)),
             current_size |-> BigEndian(Slice(OFFSET_CURRENT_SIZE, 8))], FALSE)

read_header ==
    IF Len(map) < HEADER_SIZE THEN Err("InvalidFileSize", FALSE)
    ELSE IF Slice(OFFSET_HEADER, Len(HEADER_MAGIC)) # HEADER_MAGIC
         THEN Err("InvalidHeaderMagic", FALSE)
    ELSE IF BigEndian(Slice(OFFSET_VERSION, 4)) # <<0, HEADER_VERSION>>
         THEN Err("VersionMismatch", FALSE)
    ELSE IF BigEndian(Slice(OFFSET_CRC32, 4)) # Checksum(Slice(0, OFFSET_CRC32))
         THEN Err("ChecksumMismatch", FALSE)
    ELSE Ok([version      |-> HEADER_VERSION,
             flags        |-> 0,
             generation   |-> BigEndian(Slice(OFFSET_GENERATION, 8)),
             num_records  |-> BigEndian(Slice(OFFSET_NUM_RECORDS, 8)),
             repack_size  |-> BigEndian(Slice(OFFSET_REPACK_SIZE, 8)),
             current_size |-> BigEndian(Slice(OFFSET_CURRENT_SIZE, 8))], FALSE)

----------------------------------------------------------------------------
(* Db::record_at(offset), in the order of the code: the tag and the level, *)
(* the level check, the compact lengths, the extended lengths, len, the    *)
(* size check, the pointers, the head checksum and its check, the tail     *)
(* checksum, the conversion of the tag.                                    *)

\* The lengths read in the order tag, level, key length (2 or 2 + 8 bytes),
\* value length (4 or 4 + 8 bytes)
RecordLengthsInTurn(off) ==
    LET Value(kc, n1, vc) ==
            [key_len |-> IF kc = U16Max THEN BigEndian(Slice(off + 4, 8))
                         ELSE U16AsUsize(kc),
             val_len |-> IF vc = U32Max THEN BigEndian(Slice(n1 + 4, 8))
                         ELSE U32AsUsize(vc),
             next    |-> IF vc = U32Max THEN n1 + 12 ELSE n1 + 4]
        Key(kc, n1) == Value(kc, n1, BigEndian(Slice(n1, 4)))
        Compact(kc) == Key(kc, IF kc = U16Max THEN off + 12 ELSE off + 4)
    IN  Compact(BigEndian(Slice(off + 2, 2))[1])

\* The lengths and the cursor after them (lines 314-335)
RecordLengths(off) ==
    LET Extended(kc, vc) ==
            LET kx == kc = U16Max
                vx == vc = U32Max
                n1 == off + 8
                n2 == IF kx THEN n1 + 8 ELSE n1
                n3 == IF vx THEN n2 + 8 ELSE n2
            IN  [key_len |-> IF kx THEN BigEndian(Slice(n1, 8)) ELSE U16AsUsize(kc),
                 val_len |-> IF vx THEN BigEndian(Slice(n2, 8)) ELSE U32AsUsize(vc),
                 next    |-> n3]
    IN  Extended(BigEndian(Slice(off + 2, 2))[1], BigEndian(Slice(off + 4, 4)))

\* len and offset + len (lines 337-342): the wrapped values, and whether an
\* addition overflowed
RecordLen(off, lvl, next, key_len, val_len) ==
    LET End(kv, ru, len, end) ==
            [len |-> len.v, end |-> end.v,
             overflow |-> kv.c + ru.c + len.c + end.c > 0]
        Total(kv, ru, len) == End(kv, ru, len, Add64(Usize(off), len.v))
        Padded(kv, ru) ==
            Total(kv, ru, Add64(Usize((next - off) + 8 * (lvl + 1) + 8), ru.v))
        Payload(kv) == Padded(kv, round_up(kv.v, 8))
    IN  Payload(Add64(key_len, val_len))

\* record_at from the size check on (lines 337-388): ls is what
\* RecordLengths read and sz what RecordLen computed from it
RecordFrom(off, ls, sz) ==
    LET raw_type == Byte(off)
        lvl      == Byte(off + 1)
        p1       == ~InMap(off, ls.next - off)
    IN  IF sz.overflow /\ build = "debug"
        THEN Panic("attempt to add with overflow", p1)
    ELSE IF Less64(Usize(Len(map)), sz.end) THEN Err("InvalidFileSize", p1)
    ELSE LET crc_at == ls.next + 8 * (lvl + 1)
             p2     == ~InMap(off, crc_at + 8 - off)
    IN  IF ~Readable(crc_at, 4) THEN Fault
    ELSE IF BigEndian(Slice(crc_at, 4)) # Checksum(Slice(off, crc_at - off))
         THEN Err("ChecksumMismatch", ~InMap(off, crc_at + 4 - off))
    ELSE IF ~Readable(crc_at, 8) THEN Fault
    ELSE IF RecordTypeFrom(raw_type) = "panic"
         THEN Panic("no conversion for RecordType", p2)
    ELSE Ok([offset     |-> off,
             len        |-> sz.len,
             typ        |-> RecordTypeFrom(raw_type),
             level      |-> lvl,
             key_len    |-> ls.key_len,
             val_len    |-> ls.val_len,
             next_loc   |-> [i \in 1..(lvl + 1) |->
                                BigEndian(Slice(ls.next + 8 * (i - 1), 8))] \o <<>>,
             crc32_head |-> BigEndian(Slice(crc_at, 4)),
             crc32_tail |-> BigEndian(Slice(crc_at + 4, 4)),
             key_offset |-> crc_at + 8,
             val_offset |-> Add64(Usize(crc_at + 8), ls.key_len).v], p2)

\* record_at from the lengths on (lines 314-388)
RecordSized(off, ls) ==
    IF ~Readable(off, ls.next - off) THEN Fault
    ELSE RecordFrom(off, ls, RecordLen(off, Byte(off + 1), ls.next, ls.key_len, ls.val_len))

record_at(off) ==
    IF ~Readable(off, 2) THEN Fault
    ELSE IF Byte(off + 1) > MAX_LEVEL THEN Err("InvalidLevel", ~InMap(off, 2))
    ELSE RecordSized(off, RecordLengths(off))

\* record_at of a usize: an offset the model's integers cannot hold is far
\* past the mapping and its slack
record_at_usize(o) == IF IsSmall(o) THEN record_at(ToInt(o)) ELSE Fault

----------------------------------------------------------------------------
(* Record::key, Record::value and the comparison key.cmp(next.key())       *)

\* The key and the value of a record that lies inside the mapping
KeyOf(rec) == Slice(rec.key_offset, ToInt(rec.key_len))
ValueOf64(rec) == Slice(ToInt(rec.val_offset), ToInt(rec.val_len))

RECURSIVE CmpFrom(_, _, _)
CmpFrom(a, b, i) ==
    IF i > Len(a) \/ i > Len(b)
    THEN (IF Len(a) < Len(b) THEN "Less"
          ELSE IF Len(a) > Len(b) THEN "Greater" ELSE "Equal")
    ELSE IF a[i] < b[i] THEN "Less"
    ELSE IF a[i] > b[i] THEN "Greater"
    ELSE CmpFrom(a, b, i + 1)

\* <[u8] as Ord>::cmp: bytewise over the common length, then by length
Cmp(a, b) == CmpFrom(a, b, 1)

\* The key of rec can be read to its end without a fault
KeyReadable(rec) == IsSmall(rec.key_len) /\ Readable(rec.key_offset, ToInt(rec.key_len))

\* println!("next key {:?}", next.key()) and key.cmp(next.key()) (lines
\* 255-257): the whole key of the record is read, wherever it lies
CmpKey(k, rec) ==
    IF ~KeyReadable(rec) THEN Fault
    ELSE Ok(Cmp(k, KeyOf(rec)), ~InMap(rec.key_offset, ToInt(rec.key_len)))

----------------------------------------------------------------------------
(* The operations *)

NoRecord == [offset |-> 0]
Some(v) == [kind |-> "Some", val |-> v, past |-> FALSE]
NoneRet == [kind |-> "None", val |-> "None", past |-> FALSE]
Running == [kind |-> "Running", val |-> "", past |-> FALSE]

\* open(path): the mapping is the environment's; read_header decides
Open ==
    /\ pc = "closed"
    /\ header' = read_header
    /\ pc' = IF header'.kind = "Ok" THEN "open" ELSE "open_err"
    /\ ret' = IF header'.kind = "Ok" THEN Running ELSE header'
    /\ UNCHANGED <<map, slack, build, layout, lines, key, r, level, offset, out, past, at>>

\* Db::get, up to the loop (lines 236-237)
GetEnter(k) ==
    /\ pc = "open"
    /\ key' = k
    /\ LET Enter(res) ==
               /\ past' = (past \/ res.past)
               /\ at' = START_OFFSET
               /\ IF res.kind = "Ok"
                  THEN /\ r' = res.val
                       /\ level' = res.val.level
                       /\ pc' = "get"
                       /\ ret' = Running
                  ELSE /\ pc' = "get_ret"
                       /\ ret' = res
                       /\ UNCHANGED <<r, level>>
       IN  Enter(record_at(START_OFFSET))
    /\ UNCHANGED <<map, slack, build, layout, lines, header, offset, out>>

\* The inner while loop without the descent: only level lvl is looked at
DescendTop(rec, lvl) ==
    IF lvl > 0 THEN [offset |-> rec.next_loc[lvl + 1], level |-> lvl]
    ELSE [offset |-> Zero64, level |-> 0]

RECURSIVE Descend(_, _)
\* The inner while loop (lines 242-248): the first level at or below lvl
\* with a pointer, and the pointer
Descend(rec, lvl) ==
    IF lvl > 0
    THEN IF rec.next_loc[lvl + 1] = Zero64 THEN Descend(rec, lvl - 1)
         ELSE [offset |-> rec.next_loc[lvl + 1], level |-> lvl]
    ELSE [offset |-> Zero64, level |-> 0]

\* get's loop from the comparison on (lines 257-269): next is the record
\* the pointer of level d.level led to, c what key.cmp(next.key()) gave
GetCompare(d, next, c) ==
    /\ past' = (past \/ next.past \/ c.past)
    /\ CASE c.kind = "Fault" ->
              /\ ret' = c
              /\ pc' = "get_ret"
              /\ UNCHANGED <<r, level>>
         [] c.kind = "Ok" /\ c.val = "Equal" ->
              /\ ret' = Ok(Some(next.val), FALSE)
              /\ pc' = "get_ret"
              /\ UNCHANGED <<r, level>>
         [] c.kind = "Ok" /\ c.val = "Less" ->
              /\ level' = d.level - 1
              /\ r' = r
              /\ pc' = IF d.level - 1 = 0 THEN "get_ret" ELSE "get"
              /\ ret' = IF d.level - 1 = 0 THEN Ok(NoneRet, FALSE) ELSE Running
         [] c.kind = "Ok" /\ c.val = "Greater" ->
              /\ r' = next.val
              /\ level' = next.val.level
              /\ UNCHANGED <<pc, ret>>

\* get's loop from record_at on (lines 254-269): next is what it returned
\* for the pointer d.offset
GetVisit(d, next) ==
    /\ at' = IF IsSmall(d.offset) THEN ToInt(d.offset) ELSE -1
    /\ IF next.kind # "Ok"
       THEN /\ ret' = next
            /\ pc' = "get_ret"
            /\ past' = (past \/ next.past)
            /\ UNCHANGED <<r, level>>
       ELSE GetCompare(d, next, CmpKey(key, next.val))

\* get's loop after the descent d (lines 250-269)
GetStep(d) ==
    IF d.level = 0 \/ d.offset = Zero64
    THEN /\ ret' = Ok(NoneRet, FALSE)
         /\ pc' = "get_ret"
         /\ UNCHANGED <<r, level, past, at>>
    ELSE GetVisit(d, record_at_usize(d.offset))

\* One iteration of get's loop (lines 239-270)
GetLoop ==
    /\ pc = "get"
    /\ lines' = 1 - lines
    /\ GetStep(Descend(r, level))
    /\ UNCHANGED <<map, slack, build, layout, header, key, offset, out>>

\* Db::iter
IterEnter ==
    /\ pc = "open"
    /\ pc' = "iter"
    /\ offset' = START_OFFSET
    /\ ret' = Running
    /\ UNCHANGED <<map, slack, build, layout, lines, header, key, r, level, out, past, at>>

\* DbIter::next without the test for a blank marker
SkipNoBlanks(off) ==
    IF ~Less64(Usize(off), header.val.current_size)
    THEN [offset |-> off, at |-> "end", past |-> FALSE]
    ELSE IF ~Readable(off, Len(BLANK))
    THEN [offset |-> off, at |-> "fault", past |-> TRUE]
    ELSE [offset |-> off, at |-> "record", past |-> ~InMap(off, Len(BLANK))]

RECURSIVE SkipBlanks(_)
\* DbIter::next down to the record it decodes (lines 454-460): the offset
\* after the blank markers, and how the walk over them ended
SkipBlanks(off) ==
    IF ~Less64(Usize(off), header.val.current_size)
    THEN [offset |-> off, at |-> "end", past |-> FALSE]
    ELSE IF ~Readable(off, Len(BLANK))
    THEN [offset |-> off, at |-> "fault", past |-> TRUE]
    ELSE IF Slice(off, Len(BLANK)) = BLANK
    THEN LET s == SkipBlanks(off + 8)
         IN  [s EXCEPT !.past = @ \/ ~InMap(off, Len(BLANK))]
    ELSE [offset |-> off, at |-> "record", past |-> ~InMap(off, Len(BLANK))]

\* Result::unwrap (line 462)
Unwrap(res) ==
    IF res.kind = "Err"
    THEN Panic(<<"called Result::unwrap() on an Err value", res.val>>, res.past)
    ELSE res

\* DbIter::next after record_at (lines 462-467): res is what unwrap gave for
\* the record at s.offset, and the offset moves past a record that decoded
Yield(s, res) ==
    IF res.kind = "Ok"
    THEN [ret |-> Some(res.val),
          offset |-> ToInt(Add64(Usize(s.offset), res.val.len).v),
          past |-> s.past \/ res.past, decoded |-> TRUE, at |-> s.offset]
    ELSE [ret |-> res, offset |-> s.offset, past |-> s.past \/ res.past,
          decoded |-> TRUE, at |-> s.offset]

\* DbIter::next once the blank markers are behind it: s is where they ended
DbIterAt(s) ==
    CASE s.at = "end" ->
           [ret |-> NoneRet, offset |-> s.offset, past |-> s.past,
            decoded |-> FALSE, at |-> s.offset]
      [] s.at = "fault" ->
           [ret |-> Fault, offset |-> s.offset, past |-> TRUE,
            decoded |-> FALSE, at |-> s.offset]
      [] s.at = "record" -> Yield(s, Unwrap(record_at(s.offset)))

\* DbIter::next at offset off: what it returns and the offset it leaves
DbIterNext(off) == DbIterAt(SkipBlanks(off))

\* The caller's side of one call of DbIter::next that returned n
IterStep(n) ==
    /\ offset' = n.offset
    /\ ret' = n.ret
    /\ past' = (past \/ n.past)
    /\ out' = IF n.ret.kind = "Some" THEN Append(out, n.ret.val) ELSE out
    /\ pc' = IF n.ret.kind \in {"Some", "None"} THEN "iter" ELSE "iter_dead"
    /\ at' = IF n.decoded THEN n.at ELSE at

\* One call of DbIter::next.  A panic or a fault ends the process.
IterNext ==
    /\ pc = "iter"
    /\ IterStep(DbIterNext(offset))
    /\ UNCHANGED <<map, slack, build, layout, lines, header, key, r, level>>

\* std::str::from_utf8(key).unwrap_or("[Utf8Error]"): a key of ASCII bytes is
\* shown as it is; the files of this model hold no other valid UTF-8
Utf8(bs) == IF \A i \in DOMAIN bs : bs[i] < 128 THEN bs ELSE "[Utf8Error]"

\* Record::dump: the fields the line shows.  The line of a Dummy or a Record
\* shows the key, which is read to its end.
DumpLine(rec) ==
    IF rec.typ \in {"Dummy", "Record"}
    THEN IF ~KeyReadable(rec) THEN Fault
         ELSE Ok([at |-> rec.offset, name |-> rec.typ, kl |-> rec.key_len,
                  dl |-> rec.val_len, lvl |-> rec.level, key |-> Utf8(KeyOf(rec)),
                  next_loc |-> rec.next_loc],
                 ~InMap(rec.key_offset, ToInt(rec.key_len)))
    ELSE Ok([at |-> rec.offset, name |-> rec.typ, ptr |-> rec.next_loc[1]], FALSE)

\* Db::dump, up to the loop (lines 274-282)
DumpEnter ==
    /\ pc = "open"
    /\ pc' = "dump"
    /\ offset' = START_OFFSET
    /\ out' = <<[name |-> "HEADER", v |-> header.val.version, fl |-> header.val.flags,
                 num |-> header.val.num_records, sz |-> header.val.current_size,
                 repack |-> header.val.repack_size]>>
    /\ ret' = Running
    /\ UNCHANGED <<map, slack, build, layout, lines, header, key, r, level, past, at>>

\* dump's loop after record_at (lines 289-294): res is what it returned at
\* offset, line what the record's dump printed
DumpShow(res, line) ==
    /\ past' = (past \/ ~InMap(offset, Len(BLANK)) \/ res.past \/ line.past)
    /\ at' = offset
    /\ IF line.kind = "Ok"
       THEN /\ out' = Append(out, line.val)
            /\ offset' = ToInt(Add64(Usize(offset), res.val.len).v)
            /\ UNCHANGED <<pc, ret>>
       ELSE /\ ret' = line
            /\ pc' = "dump_ret"
            /\ UNCHANGED <<offset, out>>

\* let record = self.record_at(offset)?; record.dump()
DumpRecord(res) == DumpShow(res, IF res.kind = "Ok" THEN DumpLine(res.val) ELSE res)

\* One iteration of dump's loop (lines 283-294), or its end (line 296)
DumpLoop ==
    /\ pc = "dump"
    /\ IF ~Less64(Usize(offset), header.val.current_size)
       THEN /\ ret' = Ok("()", FALSE)
            /\ pc' = "dump_ret"
            /\ UNCHANGED <<offset, out, past, at>>
       ELSE IF ~Readable(offset, Len(BLANK))
       THEN /\ ret' = Fault
            /\ pc' = "dump_ret"
            /\ past' = TRUE
            /\ UNCHANGED <<offset, out, at>>
       ELSE IF Slice(offset, Len(BLANK)) = BLANK
       THEN /\ out' = Append(out, [at |-> offset, name |-> "BLANK"])
            /\ offset' = offset + 8
            /\ past' = (past \/ ~InMap(offset, Len(BLANK)))
            /\ UNCHANGED <<pc, ret, at>>
       ELSE DumpRecord(record_at(offset))
    /\ UNCHANGED <<map, slack, build, layout, lines, header, key, r, level>>

----------------------------------------------------------------------------
(* The files the operations are run on.  The repository holds no writer:   *)
(* a file is written here from a list of items, in the byte layout that    *)
(* read_header and record_at read (sections 4.1, 4.2 and 6 of the spec).   *)
(* An item is a blank marker or a record: its tag byte, level, key, value, *)
(* pointers, whether each length is written in its extended form, whether  *)
(* its head checksum is the right one, and the bit of its framing that is  *)
(* flipped after the checksum was taken (-1: none; bit 8 * b + k is the    *)
(* bit of value 2^k in byte b of the record).                              *)

\* The bytes of a word, most significant first
BytesOf(w) == [i \in 1..(2 * Len(w)) |->
                 IF i % 2 = 1 THEN w[(i + 1) \div 2] \div 256 ELSE w[i \div 2] % 256]
              \o <<>>

RoundUp8(n) == ((n + 7) \div 8) * 8

Zeros(n) == [i \in 1..n |-> 0] \o <<>>

BlankItem == [kind |-> "blank"]

RecordItem(typ, lvl, k, v, ptrs) ==
    [kind |-> "record", typ |-> typ, level |-> lvl, key |-> k, val |-> v,
     ptrs |-> ptrs, kx |-> FALSE, vx |-> FALSE, crc_ok |-> TRUE, flip |-> -1]

\* The framing of a record before its head checksum
WriteFraming(it) ==
    <<it.typ, it.level>>
    \o BytesOf(<<IF it.kx THEN U16Max ELSE Len(it.key)>>)
    \o BytesOf(IF it.vx THEN U32Max ELSE <<0, Len(it.val)>>)
    \o (IF it.kx THEN BytesOf(Usize(Len(it.key))) ELSE <<>>)
    \o (IF it.vx THEN BytesOf(Usize(Len(it.val))) ELSE <<>>)
    \o BytesOf([i \in 1..(4 * Len(it.ptrs)) |-> it.ptrs[(i + 3) \div 4][((i - 1) % 4) + 1]])

\* The bytes bs with bit f flipped
FlipBit(bs, f) ==
    IF f < 0 THEN bs
    ELSE [bs EXCEPT ![(f \div 8) + 1] = XorByte(@, 2 ^ (f % 8))]

\* A checksum field: the checksum crc, or a wrong one
CrcField(crc, ok) == BytesOf(IF ok THEN crc ELSE <<crc[1], (crc[2] + 1) % Limb>>)

\* The bytes bs and the zeros that fill them to a multiple of 8
Padded(bs) == bs \o Zeros(RoundUp8(Len(bs)) - Len(bs))

\* A record of the given framing and payload: the head checksum is taken
\* before the flip
RecordBytes(it, framing, payload) ==
    FlipBit(framing, it.flip)
    \o CrcField(Checksum(framing), it.crc_ok)
    \o BytesOf(Checksum(payload))
    \o payload

WriteItem(it) ==
    IF it.kind = "blank" THEN BLANK
    ELSE RecordBytes(it, WriteFraming(it), Padded(it.key \o it.val))

\* The bytes an item takes in the file
ItemSize(it) ==
    IF it.kind = "blank" THEN Len(BLANK)
    ELSE 8 + (IF it.kx THEN 8 ELSE 0) + (IF it.vx THEN 8 ELSE 0)
         + 8 * Len(it.ptrs) + 8 + RoundUp8(Len(it.key) + Len(it.val))

RECURSIVE WriteItems(_, _)
WriteItems(items, i) ==
    IF i > Len(items) THEN <<>> ELSE WriteItem(items[i]) \o WriteItems(items, i + 1)

RECURSIVE SizeFrom(_, _)
SizeFrom(items, i) == IF i = 0 THEN 0 ELSE ItemSize(items[i]) + SizeFrom(items, i - 1)

\* The offset of the i-th item of a file
ItemOffset(items, i) == START_OFFSET + SizeFrom(items, i - 1)

\* The 64 bytes of a header; hd gives the magic, the version, the sizes and
\* whether the checksum is the right one
WriteHeader(hd) ==
    LET Summed(body) == body \o CrcField(Checksum(body), hd.crc_ok)
    IN  Summed(hd.magic
               \o BytesOf(<<0, hd.version>>)
               \o BytesOf(hd.generation)
               \o BytesOf(hd.num_records)
               \o BytesOf(hd.repack_size)
               \o BytesOf(hd.current_size)
               \o Zeros(4))

\* The header of a file of the given items: current_size is the file's end
HeaderFor(items) ==
    [magic |-> HEADER_MAGIC, version |-> HEADER_VERSION,
     generation |-> Usize(1),
     num_records |-> Usize(Cardinality({i \in DOMAIN items :
                                          items[i].kind = "record" /\ items[i].typ = TagRecord})),
     repack_size |-> Usize(ItemOffset(items, Len(items) + 1)),
     current_size |-> Usize(ItemOffset(items, Len(items) + 1)),
     crc_ok |-> TRUE]

WriteFile(hd, items) == WriteHeader(hd) \o WriteItems(items, 1)

----------------------------------------------------------------------------
(* Well-formed files: a sentinel head at START_OFFSET, then data records   *)
(* and blank markers in any file order.  At each level l >= 1 a record's   *)
(* pointer leads to the record of the next greater key among those of      *)
(* level >= l, or is 0; slot 0 is left 0 (get never reads it).             *)

MaxRecords == 2
MaxLvl == 2
Slack == 8

Keys == {<<97>>, <<97, 98>>, <<98>>}
SearchKeys == Keys \cup {<<>>, <<97, 97>>, <<99>>}

\* A value for a key: key and value fill 3 bytes, or exactly 8
ValueFor(k) == IF Len(k) = 1 THEN <<118, k[1]>> ELSE <<118, 119, 120, 121, 122, 123>>

\* The record of index i's successor at level l in key order, or 0
Successor(items, i, l) ==
    LET C == {j \in DOMAIN items :
                /\ j # 1
                /\ items[j].kind = "record"
                /\ items[j].level >= l
                /\ Cmp(items[i].key, items[j].key) = "Less"}
    IN  IF C = {} THEN 0
        ELSE CHOOSE j \in C : \A j2 \in C : Cmp(items[j].key, items[j2].key) # "Greater"

\* The items with their pointers set
Link(items) ==
    [i \in DOMAIN items |->
        IF items[i].kind = "blank" THEN items[i]
        ELSE [items[i] EXCEPT !.ptrs =
                [l \in 1..(items[i].level + 1) |->
                    IF l = 1 \/ Successor(items, i, l - 1) = 0 THEN Zero64
                    ELSE Usize(ItemOffset(items, Successor(items, i, l - 1)))]
                \o <<>>]]
    \o <<>>

HeadItem(lvl) == RecordItem(TagDummy, lvl, <<>>, <<>>, Zeros(lvl + 1))

\* The data records of a file, in file order: distinct keys, levels 1..MaxLvl
EntrySeqs ==
    UNION {{e \in [1..n -> Keys \X (1..MaxLvl)] :
              \A i, j \in 1..n : i # j => e[i][1] # e[j][1]} : n \in 0..MaxRecords}

\* The unlinked items of a file: the head, the records, one blank marker
\* before record b (after the last one when b = Len(e) + 1), none when b = 0
Plan(e, b) ==
    LET recs == [i \in 1..Len(e) |->
                   RecordItem(TagRecord, e[i][2], e[i][1], ValueFor(e[i][1]),
                              Zeros(e[i][2] + 1))]
    IN  <<HeadItem(MaxLvl)>>
        \o (IF b = 0 THEN recs
            ELSE SubSeq(recs, 1, b - 1) \o <<BlankItem>> \o SubSeq(recs, b, Len(recs)))

GoodLayouts == {Link(Plan(e, b)) : e \in EntrySeqs, b \in 0..1}

GoodFiles == {[layout |-> l, map |-> WriteFile(HeaderFor(l), l)] : l \in GoodLayouts}

\* A file with every kind of item: a record with both lengths in their
\* extended form, a commit, a delete, and blank markers between and after them
MixedLayout ==
    LET a == [RecordItem(TagRecord, 1, <<97>>, ValueFor(<<97>>), <<Zero64, Zero64>>)
                 EXCEPT !.kx = TRUE, !.vx = TRUE]
        l == <<HeadItem(MaxLvl), a,
               RecordItem(TagCommit, 0, <<>>, <<>>, <<Usize(START_OFFSET)>>),
               BlankItem,
               RecordItem(TagDelete, 0, <<>>, <<>>, <<Usize(START_OFFSET)>>),
               BlankItem, BlankItem>>
    IN  [l EXCEPT ![1].ptrs = [i \in 1..(MaxLvl + 1) |->
                                 IF i = 2 THEN Usize(ItemOffset(l, 2)) ELSE Zero64] \o <<>>]

MixedFile == [layout |-> MixedLayout, map |-> WriteFile(HeaderFor(MixedLayout), MixedLayout)]

----------------------------------------------------------------------------
(* Damaged files: one well-formed file of two records ("a" at level 1,     *)
(* "b" at level 2) with one thing wrong.                                   *)

BaseLayout == Link(Plan(<< <<(<<97>>), 1>>, <<(<<98>>), 2>> >>, 0))

BaseEnd == ItemOffset(BaseLayout, Len(BaseLayout) + 1)

File(hd, items) == [layout |-> items, map |-> WriteFile(hd, items)]

\* An item of the base file changed
Damaged(i, item) ==
    LET Whole(l) == File(HeaderFor(l), l) IN Whole([BaseLayout EXCEPT ![i] = item])

\* The first n bytes of the file of header hd and the base items
Cut(hd, n) == [layout |-> BaseLayout, map |-> SubSeq(WriteFile(hd, BaseLayout), 1, n)]

BaseHeader == HeaderFor(BaseLayout)

RecordFiles ==
    { Damaged(c[1], c[2]) : c \in
        { \* a tag byte that is no record type ('X'), under a right checksum
          <<3, [BaseLayout[3] EXCEPT !.typ = 88]>>,
          \* a wrong head checksum
          <<2, [BaseLayout[2] EXCEPT !.crc_ok = FALSE]>>,
          <<3, [BaseLayout[3] EXCEPT !.crc_ok = FALSE]>>,
          \* a level above MAX_LEVEL
          <<3, [BaseLayout[3] EXCEPT !.level = MAX_LEVEL + 1]>>,
          \* "b" points back to "a" at level 1: a cycle
          <<3, [BaseLayout[3] EXCEPT !.ptrs[2] = Usize(ItemOffset(BaseLayout, 2))]>>,
          \* "b" points to the end of the file, and far past it
          <<3, [BaseLayout[3] EXCEPT !.ptrs[2] = Usize(BaseEnd)]>>,
          <<3, [BaseLayout[3] EXCEPT !.ptrs[2] = <<0, 1, 0, 0>>]>>,
          \* the head points into the middle of "a"
          <<1, [BaseLayout[1] EXCEPT !.ptrs[2] = Usize(ItemOffset(BaseLayout, 2) + 8)]>> } }

HeaderFiles ==
    { File(c[1], c[2]) : c \in
        { \* current_size past the end of the file, and far past it
          <<[BaseHeader EXCEPT !.current_size = Usize(BaseEnd + 8)], BaseLayout>>,
          <<[BaseHeader EXCEPT !.current_size = <<U16Max, U16Max, U16Max, U16Max>>],
            BaseLayout>>,
          \* a header and nothing after it
          <<HeaderFor(<<>>), <<>> >>,
          <<[HeaderFor(<<>>) EXCEPT !.current_size = Usize(START_OFFSET + 8)], <<>> >>,
          \* a wrong magic, version, checksum, and two of them at once
          <<[BaseHeader EXCEPT !.magic[1] = 0], BaseLayout>>,
          <<[BaseHeader EXCEPT !.version = 2], BaseLayout>>,
          <<[BaseHeader EXCEPT !.crc_ok = FALSE], BaseLayout>>,
          <<[BaseHeader EXCEPT !.magic[20] = 1, !.version = 0], BaseLayout>>,
          <<[BaseHeader EXCEPT !.magic[20] = 1, !.crc_ok = FALSE], BaseLayout>>,
          <<[BaseHeader EXCEPT !.version = 256, !.crc_ok = FALSE], BaseLayout>> } }
    \cup
    { Cut(c[1], c[2]) : c \in
        { \* the file cut inside its last record, inside its header, and empty
          <<BaseHeader, BaseEnd - 4>>,
          <<BaseHeader, HEADER_SIZE - 1>>,
          <<BaseHeader, 0>>,
          \* a wrong magic and version in a header cut short
          <<[BaseHeader EXCEPT !.magic[1] = 0, !.version = 2], HEADER_SIZE - 1>> } }

DamagedFiles == RecordFiles \cup HeaderFiles

\* The two things the environment decides
Envs == {0, Slack} \X {"debug", "release"}

----------------------------------------------------------------------------
(* The state machine *)

Start(f, env) ==
    /\ map = f.map
    /\ layout = f.layout
    /\ slack = env[1]
    /\ build = env[2]
    /\ header = Running
    /\ key = <<>>
    /\ r = NoRecord
    /\ level = 0
    /\ offset = 0
    /\ out = <<>>
    /\ ret = Running
    /\ past = FALSE
    /\ at = -1
    /\ lines = 0

\* A well-formed file is run where every read past the mapping faults and
\* every overflow panics; a damaged one in all four environments
Init ==
    /\ \/ \E f \in GoodFiles : Start(f, <<0, "debug">>)
       \/ \E f \in DamagedFiles \cup {MixedFile}, env \in Envs : Start(f, env)
    /\ pc = "closed"

Next ==
    \/ Open
    \/ \E k \in SearchKeys : GetEnter(k)
    \/ GetLoop
    \/ IterEnter
    \/ IterNext
    \/ DumpEnter
    \/ DumpLoop

Spec == Init /\ [][Next]_vars

\* get's loop prints a line at each iteration.  The thread that runs get is
\* never suspended for ever: while the loop runs, a line is printed again.
GetPrints == pc = "get" /\ lines' = 1 - lines

FairSpec == Spec /\ WF_lines(GetPrints)

----------------------------------------------------------------------------
(* One record at START_OFFSET, decoded by get, by the iterator and by dump: *)
(* a valid record with each of its lengths in the compact or the extended  *)
(* form and at most one bit of its framing flipped, or a record whose      *)
(* extended lengths are any 64-bit numbers.                                *)

FlipLvl == 1

\* The record that is flipped, and the bits of its framing
FlipItem(kx, vx, f) ==
    [RecordItem(TagRecord, FlipLvl, <<97>>, <<118, 97>>, [l \in 1..(FlipLvl + 1) |-> Zero64])
        EXCEPT !.kx = kx, !.vx = vx, !.flip = f]

FramingBits(kx, vx) == 8 * Len(WriteFraming(FlipItem(kx, vx, -1)))

\* The file of one item, with two blank markers after it
FlipFile(it) == File(HeaderFor(<<it, BlankItem, BlankItem>>), <<it, BlankItem, BlankItem>>)

FlipFiles ==
    {FlipFile(FlipItem(c[1], c[2], c[3])) :
        c \in {d \in BOOLEAN \X BOOLEAN \X (-1..(FramingBits(TRUE, TRUE) - 1)) :
                  d[3] < FramingBits(d[1], d[2])}}

\* Lengths up to 2^64 - 1
LenSamples ==
    {Zero64, Usize(1), Usize(7), Usize(8), <<0, 1, 0, 0>>, <<Limb \div 2, 0, 0, 0>>,
     <<U16Max, U16Max, U16Max, U16Max - 6>>, <<U16Max, U16Max, U16Max, U16Max>>}

\* A record of the given level with both lengths in the extended form, under
\* a right head checksum, and 16 bytes after it
LenFile(lvl, kl, vl) ==
    LET framing == <<TagRecord, lvl>> \o BytesOf(<<U16Max>>) \o BytesOf(U32Max)
                   \o BytesOf(kl) \o BytesOf(vl) \o Zeros(8 * (lvl + 1))
        hd == [HeaderFor(<<>>) EXCEPT
                  !.current_size = Usize(START_OFFSET + Len(framing) + 8 + 16)]
    IN  [layout |-> <<[kind |-> "lengths", level |-> lvl, key_len |-> kl, val_len |-> vl]>>,
         map |-> WriteHeader(hd) \o framing \o BytesOf(Checksum(framing))
                 \o BytesOf(Checksum(<<>>)) \o Zeros(16)]

LenFiles == {LenFile(lvl, kl, vl) : lvl \in {0, MAX_LEVEL}, kl \in LenSamples, vl \in LenSamples}

RecordInit ==
    /\ \E f \in FlipFiles \cup LenFiles, env \in {<<0, "debug">>, <<Slack, "release">>} :
          Start(f, env)
    /\ pc = "closed"

RecordNext ==
    \/ Open
    \/ GetEnter(<<97>>)
    \/ GetLoop
    \/ IterEnter
    \/ IterNext
    \/ DumpEnter
    \/ DumpLoop

RecordSpec == RecordInit /\ [][RecordNext]_vars

----------------------------------------------------------------------------
(* The header (C5) *)

\* The four conditions of section 4.1, on the bytes of the file
LongEnough == Len(map) >= 64
MagicOk == SubSeq(map, 1, 20) = HEADER_MAGIC
VersionOk == SubSeq(map, 21, 24) = <<0, 0, 0, 1>>
HeaderCrcOk == SubSeq(map, 61, 64) = BytesOf(Checksum(SubSeq(map, 1, 60)))

\* C5: open succeeds exactly when the buffer has 64 bytes, the magic, version 1
\* and the right checksum over bytes [0, 60); otherwise it returns the error of
\* the first failing check in the order InvalidFileSize, InvalidHeaderMagic,
\* VersionMismatch, ChecksumMismatch; on success generation, num_records,
\* repack_size and current_size are the big-endian fields at 24, 32, 40, 48.
C5_OpenChecksHeaderInOrder ==
    pc # "closed" =>
        /\ (header.kind = "Ok") = (pc # "open_err")
        /\ header.kind \in {"Ok", "Err"}
        /\ (header.kind = "Ok") = (LongEnough /\ MagicOk /\ VersionOk /\ HeaderCrcOk)
        /\ header.kind = "Err" =>
              /\ ret = header
              /\ header.val =
                    (IF ~LongEnough THEN "InvalidFileSize"
                     ELSE IF ~MagicOk THEN "InvalidHeaderMagic"
                     ELSE IF ~VersionOk THEN "VersionMismatch"
                     ELSE "ChecksumMismatch")
        /\ header.kind = "Ok" =>
              /\ BytesOf(header.val.generation) = SubSeq(map, 25, 32)
              /\ BytesOf(header.val.num_records) = SubSeq(map, 33, 40)
              /\ BytesOf(header.val.repack_size) = SubSeq(map, 41, 48)
              /\ BytesOf(header.val.current_size) = SubSeq(map, 49, 56)

\* open has refused a header whose version and checksum are both wrong
C5_Witness ==
    /\ pc = "open_err"
    /\ header.val = "VersionMismatch"
    /\ LongEnough /\ MagicOk /\ ~VersionOk /\ ~HeaderCrcOk

----------------------------------------------------------------------------
(* Decoding a record: its tag, a failed decode under the iterator, and the *)
(* reads of the buffer (C2, C3, C4)                                        *)

\* The byte at off lies in the buffer and is none of the four tag bytes
UnknownTagAt(off) ==
    off >= 0 /\ off < Len(map) /\ RecordTypeFrom(map[off + 1]) = "panic"

\* C2: decoding a record whose tag byte is none of the four record types
\* returns the error UnknownRecordType and never aborts the caller (another
\* error of record_at is let through here: the point is the tag).
C2_UnknownTagIsAnError ==
    (pc \in {"get", "get_ret", "iter", "iter_dead", "dump", "dump_ret"}
     /\ UnknownTagAt(at)) =>
        LET res == record_at(at)
        IN  /\ res.kind = "Err"
            /\ res.val \notin {"InvalidLevel", "InvalidFileSize", "ChecksumMismatch"}
                  => res.val = "UnknownRecordType"

\* dump has reached a record with the tag 'X' under a right checksum, and the
\* process has panicked
C2_Witness ==
    /\ pc = "dump_ret" /\ UnknownTagAt(at)
    /\ map[at + 1] = 88
    /\ ret.kind = "Panic" /\ ret.val = "no conversion for RecordType"

\* C3: when the record at the iterator's offset fails to decode, next hands
\* that error to its caller and the process goes on.
C3_IterDeliversDecodeError ==
    (pc \in {"iter", "iter_dead"} /\ at >= 0 /\ offset = at) =>
        LET res == record_at(at)
        IN  res.kind = "Err" => (pc = "iter" /\ ret.kind = "Err" /\ ret.val = res.val)

\* The iterator has reached a record with a wrong head checksum, and the
\* process has panicked in unwrap
C3_Witness ==
    /\ pc = "iter_dead" /\ at >= 0
    /\ record_at(at) = Err("ChecksumMismatch", FALSE)
    /\ ret.kind = "Panic" /\ ret.val[2] = "ChecksumMismatch"

\* C4: no operation reads a byte at an index at or past the buffer's length.
C4_ReadsStayInsideTheBuffer == past = FALSE /\ ret.kind # "Fault"

\* get has decoded a record at the end of the buffer (the head of a file
\* that ends with its header, or the target of a pointer): the tag and the
\* level were read past the end
C4_Witness == pc = "get_ret" /\ at = Len(map) /\ past

----------------------------------------------------------------------------
(* Termination of get (C7) *)

\* C7: every call of get returns, whatever the buffer holds.
C7_GetTerminates == (pc = "get") ~> (pc = "get_ret")

----------------------------------------------------------------------------
(* The sequential scan (C9)                                                *)

\* The buffer is the header of the file's items followed by the items, each
\* a blank marker or a valid record
Concatenation ==
    /\ \A i \in DOMAIN layout :
          layout[i].kind = "record" =>
             /\ layout[i].crc_ok
             /\ layout[i].flip = -1
             /\ layout[i].level <= MAX_LEVEL
             /\ Len(layout[i].ptrs) = layout[i].level + 1
             /\ RecordTypeFrom(layout[i].typ) # "panic"
    /\ map = WriteFile(HeaderFor(layout), layout)

\* The indices of the file's records, and the n-th of them in file order
RecordIndices == {i \in DOMAIN layout : layout[i].kind = "record"}
NthRecord(n) == CHOOSE i \in RecordIndices : Cardinality({j \in RecordIndices : j <= i}) = n

\* The decoded record rec is the i-th item of the file
IsItem(rec, i) ==
    /\ rec.offset = ItemOffset(layout, i)
    /\ rec.len = Usize(ItemSize(layout[i]))
    /\ rec.typ = RecordTypeFrom(layout[i].typ)
    /\ rec.level = layout[i].level
    /\ rec.next_loc = layout[i].ptrs
    /\ KeyOf(rec) = layout[i].key
    /\ ValueOf64(rec) = layout[i].val

\* The line dump prints for the i-th item of the file
IsLine(line, i) ==
    /\ line.at = ItemOffset(layout, i)
    /\ IF layout[i].kind = "blank" THEN line.name = "BLANK"
       ELSE /\ line.name = RecordTypeFrom(layout[i].typ)
            /\ IF layout[i].typ \in {TagDummy, TagRecord}
               THEN /\ line.key = layout[i].key
                    /\ line.kl = Usize(Len(layout[i].key))
                    /\ line.dl = Usize(Len(layout[i].val))
                    /\ line.lvl = layout[i].level
                    /\ line.next_loc = layout[i].ptrs
               ELSE line.ptr = layout[i].ptrs[1]

\* C9: on a buffer whose region from 64 to current_size is a concatenation of
\* valid records and blank markers, the iterator yields exactly the records,
\* once each and in offset order, steps over each blank marker without
\* yielding it, and after the last record returns the end at every call; dump
\* prints the header line, then one line per record and per blank marker in
\* offset order, and returns Ok.
C9_ScanYieldsTheRecordsInOrder ==
    (pc \in {"iter", "iter_dead", "dump", "dump_ret"} /\ Concatenation) =>
        IF pc \in {"iter", "iter_dead"}
        THEN /\ pc = "iter"
             /\ ret.kind \in {"Running", "Some", "None"}
             /\ Len(out) <= Cardinality(RecordIndices)
             /\ \A n \in 1..Len(out) : IsItem(out[n], NthRecord(n))
             /\ ret.kind = "Some" => ret.val = out[Len(out)]
             /\ ret.kind = "Running" => out = <<>> /\ offset = START_OFFSET
             /\ ret.kind = "Some" => offset = ItemOffset(layout, NthRecord(Len(out)) + 1)
             /\ ret.kind = "None" =>
                   /\ Len(out) = Cardinality(RecordIndices)
                   /\ offset = ItemOffset(layout, Len(layout) + 1)
                   /\ DbIterNext(offset).ret = NoneRet
                   /\ DbIterNext(offset).offset = offset
        ELSE /\ ret.kind \in {"Running", "Ok"}
             /\ out[1].name = "HEADER"
             /\ out[1].num = HeaderFor(layout).num_records
             /\ out[1].sz = Usize(Len(map))
             /\ Len(out) <= Len(layout) + 1
             /\ \A n \in 2..Len(out) : IsLine(out[n], n - 1)
             /\ offset = ItemOffset(layout, Len(out))
             /\ (pc = "dump_ret") = (ret.kind = "Ok")
             /\ pc = "dump_ret" => Len(out) = Len(layout) + 1

\* The iterator has stepped over a blank marker that lies before a record,
\* yielded the head and two records, and returned the end
C9_Witness ==
    /\ pc = "iter" /\ Concatenation
    /\ ret.kind = "None"
    /\ Len(out) = 3
    /\ \E i \in DOMAIN layout : layout[i].kind = "blank" /\ i < Len(layout)

----------------------------------------------------------------------------
(* Lookup against the sequential scan (C1)                                 *)

RECURSIVE ScanFrom(_, _)
\* The iterator run to its end from offset off: the records it yields after
\* those of acc, and what its last call returns
ScanFrom(off, acc) ==
    LET n == DbIterNext(off)
    IN  IF n.ret.kind = "Some" /\ Len(acc) < Len(map)
        THEN ScanFrom(n.offset, Append(acc, n.ret.val))
        ELSE [recs |-> acc, end |-> n.ret, past |-> n.past]

\* Section 8.2's precondition, on the bytes of the buffer: the scan decodes
\* every record, the first is the head at offset 64, every pointer at a
\* level >= 1 is 0 or the offset of a record other than the head with a
\* greater key, and every record other than the head is pointed to at
\* level 1.  The level-1 pointers then chain all records in ascending key
\* order from the head, and the higher pointers are shortcuts in that chain.
WellFormedScan(recs) ==
    /\ Len(recs) >= 1
    /\ recs[1].offset = START_OFFSET
    /\ \A i \in 1..Len(recs) : \A l \in 1..recs[i].level :
          \/ recs[i].next_loc[l + 1] = Zero64
          \/ \E j \in 2..Len(recs) :
                /\ recs[i].next_loc[l + 1] = Usize(recs[j].offset)
                /\ recs[j].level >= l
                /\ (i = 1 \/ Cmp(KeyOf(recs[i]), KeyOf(recs[j])) = "Less")
    /\ \A j \in 2..Len(recs) :
          \E i \in 1..Len(recs) :
             recs[i].level >= 1 /\ recs[i].next_loc[2] = Usize(recs[j].offset)

WellFormed ==
    /\ header.kind = "Ok"
    /\ LET sc == ScanFrom(START_OFFSET, <<>>)
       IN  sc.end = NoneRet /\ ~sc.past /\ WellFormedScan(sc.recs)

\* What get returned is right for the records cands of the scan: Some of a
\* record with the key, which is one of cands and has that record's value,
\* when one of cands has the key, and None when none has
GetAgrees(recs, cands) ==
    /\ ret.kind = "Ok"
    /\ IF \E i \in cands : KeyOf(recs[i]) = key
       THEN /\ ret.val.kind = "Some"
            /\ KeyOf(ret.val.val) = key
            /\ \E i \in cands : /\ recs[i] = ret.val.val
                                /\ ValueOf64(ret.val.val) = layout[NthRecord(i)].val
       ELSE ret.val = NoneRet

\* C1, as stated: on a well-formed file get(k) returns a record with key k and
\* its value exactly when the sequential scan yields a record whose key is k.
C1_GetAgreesWithScan ==
    (pc = "get_ret" /\ WellFormed) =>
        LET recs == ScanFrom(START_OFFSET, <<>>).recs
        IN  GetAgrees(recs, 1..Len(recs))

\* C1: on a well-formed file get(k) returns a record with key k and its value
\* exactly when the sequential scan yields, after the sentinel head at offset
\* 64, a record whose key is k; get never returns the head.
C1_GetAgreesWithScanAfterHead ==
    (pc = "get_ret" /\ WellFormed) =>
        LET recs == ScanFrom(START_OFFSET, <<>>).recs
        IN  /\ GetAgrees(recs, 2..Len(recs))
            /\ ret.val.kind = "Some" => ret.val.val.offset # START_OFFSET

\* get has found "b" in a well-formed file of two records after moving from
\* the head to another record
C1_Witness ==
    /\ pc = "get_ret" /\ WellFormed
    /\ key = <<98>>
    /\ ret.kind = "Ok" /\ ret.val.kind = "Some"
    /\ r.offset # START_OFFSET
    /\ Len(ScanFrom(START_OFFSET, <<>>).recs) = 3

----------------------------------------------------------------------------
(* A bit flipped in the framing of a record (C6)                           *)

\* n with its bit of value 2^k flipped
FlipInt(n, k) == IF (n \div (2 ^ k)) % 2 = 1 THEN n - 2 ^ k ELSE n + 2 ^ k

\* What decoding the record at START_OFFSET must say once bit it.flip of its
\* framing is flipped, from the item and the length of the buffer alone:
\*  - a flip in the level that takes it above MAX_LEVEL: InvalidLevel;
\*  - a flip in a length that leaves the form of both lengths as it was:
\*    InvalidFileSize when the record with its new length passes the end of
\*    the buffer, ChecksumMismatch when it does not;
\*  - a flip in the tag or in the pointer table: ChecksumMismatch;
\*  - "open" for the other flips (the level changed to another level up to
\*    MAX_LEVEL, a length changed from or to its extended form): the head
\*    checksum field is then read at another place.
AfterFlip(it) ==
    LET b    == it.flip \div 8
        k    == it.flip % 8
        hdr  == 8 + (IF it.kx THEN 8 ELSE 0) + (IF it.vx THEN 8 ELSE 0)
        kl   == Len(it.key)
        vl   == Len(it.val)
        Size(kl2, vl2) ==
            IF START_OFFSET + hdr + 8 * (it.level + 1) + 8 + RoundUp8(kl2 + vl2) > Len(map)
            THEN "InvalidFileSize" ELSE "ChecksumMismatch"
        \* a bit of an 8-byte length, b0 its first byte; the buffer is far
        \* shorter than 2^24 bytes
        Wide(b0, n, other, isKey) ==
            LET p == 8 * (b0 + 7 - b) + k
            IN  IF p >= 24 THEN "InvalidFileSize"
                ELSE IF isKey THEN Size(FlipInt(n, p), other) ELSE Size(other, FlipInt(n, p))
    IN  CASE b = 0 -> "ChecksumMismatch"
          [] b = 1 -> IF FlipInt(it.level, k) > MAX_LEVEL THEN "InvalidLevel" ELSE "open"
          [] b \in 2..3 ->
               LET kc == FlipInt(IF it.kx THEN U16Max ELSE kl, 8 * (3 - b) + k)
               IN  IF it.kx \/ kc = U16Max THEN "open" ELSE Size(kc, vl)
          [] b \in 4..7 ->
               IF it.vx \/ 8 * (7 - b) + k >= 24 THEN (IF it.vx THEN "open" ELSE "InvalidFileSize")
               ELSE Size(kl, FlipInt(vl, 8 * (7 - b) + k))
          [] b \in 8..15 /\ it.kx -> Wide(8, kl, vl, TRUE)
          [] b \in 8..15 /\ ~it.kx /\ it.vx -> Wide(8, vl, kl, FALSE)
          [] b \in 16..23 /\ it.kx /\ it.vx -> Wide(16, vl, kl, FALSE)
          [] OTHER -> "ChecksumMismatch"

\* The record at START_OFFSET is a valid record with one bit of its framing flipped
Flipped == layout # <<>> /\ layout[1].kind = "record" /\ layout[1].flip >= 0

\* No operation has decoded the record at START_OFFSET, and get and dump
\* have returned the error e (the iterator yields nothing)
Refused(e) ==
    /\ pc \in {"get", "get_ret"} => pc = "get_ret" /\ ret = Err(e, FALSE) /\ r = NoRecord
    /\ pc \in {"iter", "iter_dead"} => out = <<>> /\ ret.kind \notin {"Some", "None"}
    /\ pc \in {"dump", "dump_ret"} =>
          /\ Len(out) = 1 /\ offset = START_OFFSET
          /\ pc = "dump_ret" => ret = Err(e, FALSE)

\* C6, as stated: every single-bit flip in the framing of a valid record, before
\* its head checksum, makes its decoding fail with ChecksumMismatch.
C6_FlipGivesChecksumMismatch ==
    (Flipped /\ pc \notin {"closed", "open", "open_err"}) => Refused("ChecksumMismatch")

\* C6: a single-bit flip in the framing of a valid record, before its head
\* checksum, makes its decoding fail: with InvalidLevel when the flip takes the
\* level above 31; and, when the flip leaves the level and the form (compact or
\* extended) of both lengths as they were, with InvalidFileSize when the
\* record with its new length passes the end of the buffer and with
\* ChecksumMismatch otherwise (so for every flip in the tag and the pointers).
C6_FlipIsRefused ==
    (Flipped /\ pc \notin {"closed", "open", "open_err"} /\ AfterFlip(layout[1]) # "open")
        => Refused(AfterFlip(layout[1]))

\* dump has returned ChecksumMismatch for a record with a bit of its last
\* pointer flipped
C6_Witness ==
    /\ Flipped /\ pc = "dump_ret"
    /\ layout[1].flip >= FramingBits(layout[1].kx, layout[1].vx) - 64
    /\ ret = Err("ChecksumMismatch", FALSE)

----------------------------------------------------------------------------
(* The place of the extended lengths (C8)                                  *)

\* The record at START_OFFSET is a valid record as written
Unflipped == layout # <<>> /\ layout[1].kind = "record" /\ layout[1].flip = -1

\* The 2-byte and the 4-byte length fields of the record at off, as read from
\* the buffer
CompactKey(off) == SubSeq(map, off + 3, off + 4)
CompactVal(off) == SubSeq(map, off + 5, off + 8)

----------------------------------------------------------------------------
(* The length of a record (C10)                                            *)

\* C10: the len that record_at computes for a level up to 31 and any two
\* lengths is a multiple of 8 and at least header_len + 8 (the checksums) +
\* key_len + val_len, that sum taken without wrapping; nothing aborts.
C10_LenCoversThePayload ==
    (pc \notin {"closed", "open", "open_err"} /\ at = START_OFFSET /\ Byte(at + 1) <= MAX_LEVEL) =>
        LET ls  == RecordLengths(at)
            sz  == RecordLen(at, Byte(at + 1), ls.next, ls.key_len, ls.val_len)
            kv  == Add64(ls.key_len, ls.val_len)
            sum == Add64(kv.v, Usize((ls.next - at) + 8))
        IN  /\ ret.kind # "Panic"
            /\ Rem64(sz.len, 8) = 0
            /\ kv.c = 0 /\ sum.c = 0
            /\ ~Less64(sz.len, sum.v)

\* A record of level 0 with key_len 2^64 - 7 and val_len 7 has been decoded
\* with len 40 (the sums wrapped), or has made the process panic
C10_Witness ==
    /\ layout # <<>> /\ layout[1].kind = "lengths"
    /\ layout[1].key_len = <<U16Max, U16Max, U16Max, U16Max - 6>>
    /\ layout[1].val_len = Usize(7)
    /\ \/ pc = "iter" /\ Len(out) = 1 /\ out[1].len = Usize(40)
       \/ pc = "iter_dead" /\ ret.kind = "Panic" /\ ret.val = "attempt to add with overflow"

====
